---- MODULE Spec2Model ----
(***************************************************************************)
(* A model of knit_graphs/Knit_Graph.py: the Knit_Graph class (a networkx  *)
(* DiGraph of loop ids, the loops and yarns dictionaries) and its course   *)
(* decomposition.  Loop and Yarn objects live on a heap and are referred   *)
(* to by reference, as Python objects are; dictionaries are association    *)
(* lists that keep Python's insertion order.                               *)
(***************************************************************************)
EXTENDS Integers, Sequences, FiniteSets, TLC

\* ------------------------------------------------------------------ bounds
\* connect_loops is not called once this many parent-stack entries exist.
MaxParents == 2
\* Where only the course decomposition is studied: loop ids range over
\* 0..MaxCourseLoopId, and connect_loops is not called once MaxCourseParents
\* parent-stack entries exist.
MaxCourseLoopId == 2
MaxCourseParents == 2

\* ------------------------------------------------- the objects callers hold
\* A Loop object is written <<loop_id, yarn_id, n>>: the n-th Loop the caller
\* constructed with this id and yarn.  A Yarn object is written
\* <<yarn_id, carrier>>.  Two objects are the same object iff the tuples are equal.

\* Loop.loop_id: fixed at construction.
loop_id(o) == o[1]

\* Loop.yarn_id: fixed at construction.
yarn_id(o) == o[2]

\* Yarn.yarn_id
yarn_yarn_id(y) == y[1]

\* Yarn.carrier
carrier(y) == y[2]

\* Loop ids handed to connect_loops.
LoopIds == {0, 1}

\* The Loop objects handed to add_loop: one per loop id, and a second Loop
\* constructed with the id 0.
LoopObjs == {<<i, "A", 1>> : i \in LoopIds} \cup {<<0, "A", 2>>}

\* The Yarn objects handed to add_yarn.
YarnObjs == {<<"A", 1>>}

\* The loop ids and Loop objects where only the course decomposition is studied.
CourseLoopIds == 0 .. MaxCourseLoopId

CourseLoopObjs == {<<i, "A", 1>> : i \in CourseLoopIds}

\* The Loop objects where the yarns are studied: two loops of yarn "A", and a
\* Loop of yarn "B" constructed with the id 1.
YarnLoopObjs == {<<0, "A", 1>>, <<1, "A", 1>>, <<1, "B", 1>>}

\* Every Loop and Yarn object there is.
AllLoopObjs == LoopObjs \cup CourseLoopObjs \cup YarnLoopObjs

AllYarnObjs == {<<"A", 1>>, <<"A", 2>>, <<"B", 3>>}

\* The defaults of connect_loops: pull_direction=Pull_Direction.BtF, depth=0,
\* parent_offset=0.  A Pull_Direction is written "BtF" or "FtB".
DefaultAttrs == [pull_direction |-> "BtF", depth |-> 0, parent_offset |-> 0]

\* The edge attributes drawn for a call: the defaults, and a triple that
\* differs from the defaults in pull_direction, depth and parent_offset.
EdgeAttrs == {DefaultAttrs, [pull_direction |-> "FtB", depth |-> 1, parent_offset |-> -1]}

\* --------------------------------------------------------------- the state
VARIABLES
    graph_nodes,   \* self.graph.nodes: <<loop id, the node's "loop" attribute>>, in insertion order
    graph_edges,   \* self.graph.edges: <<parent, child>> |-> the edge's attributes
    loops,         \* self.loops: <<loop id, Loop>>, in insertion order
    yarns,         \* self.yarns: <<yarn id, Yarn>>, in insertion order
    parent_loops,  \* Loop.parent_loops of every Loop object: a sequence of Loop references
    yarn_loops,    \* the loop sequence of every Yarn object: a sequence of Loop references
    last           \* the last call made: its name, its outcome and, for a query, what it returned

vars == <<graph_nodes, graph_edges, loops, yarns, parent_loops, yarn_loops, last>>

\* -------------------------------------------------------- Python dictionaries
\* The keys of a dictionary.
Keys(d) == {d[i][1] : i \in DOMAIN d}

\* d[k] for a key of d.
Lookup(d, k) == d[CHOOSE i \in DOMAIN d : d[i][1] = k][2]

\* An assignment that appends the pair without looking for the key.
DictSetDup(d, k, v) == Append(d, <<k, v>>)

\* d[k] = v: a present key keeps its place and takes the value, a new key goes last.
DictSet(d, k, v) ==
    IF k \in Keys(d)
    THEN [i \in DOMAIN d |-> IF d[i][1] = k THEN <<k, v>> ELSE d[i]]
    ELSE Append(d, <<k, v>>)

\* The keys of a dictionary in iteration order.
KeySeq(d) == [i \in DOMAIN d |-> d[i][1]]

\* ------------------------------------------------------ containment, lookup
\* Knit_Graph.__contains__: self.graph.has_node(item)
contains(item) == item \in Keys(graph_nodes)

\* Knit_Graph.__getitem__: self.graph.nodes[item]["loop"], for a node of the graph
getitem(item) == Lookup(graph_nodes, item)

\* self.graph.predecessors(loop_id)
predecessors(edges, id) == {e[1] : e \in {x \in DOMAIN edges : x[2] = id}}

\* --------------------------------------------------------------- Loop, Yarn
\* Loop.add_parent_loop(parent, stack_position): on top of the stack when the
\* position is None, else inserted at the position, later entries shifted.
add_parent_loop(stack, parent, stack_position) ==
    IF stack_position = << >>
    THEN Append(stack, parent)
    ELSE LET p == stack_position[1]
         IN  SubSeq(stack, 1, p) \o <<parent>> \o SubSeq(stack, p + 1, Len(stack))

\* Yarn.__contains__: whether a loop with this loop's id is on the yarn.
on_yarn(y, o) == \E i \in DOMAIN yarn_loops[y] : loop_id(yarn_loops[y][i]) = loop_id(o)

\* Yarn.add_loop_to_end(loop_id=None, loop=loop)
add_loop_to_end(seq, o) == Append(seq, o)

\* The number of parent-stack entries there are.
RECURSIVE SumLen(_, _)
SumLen(f, S) ==
    IF S = {} THEN 0
    ELSE LET x == CHOOSE x \in S : TRUE IN Len(f[x]) + SumLen(f, S \ {x})

TotalParents == SumLen(parent_loops, AllLoopObjs)

\* ------------------------------------------------------------------ courses
\* courses_step without line 106: a loop that joins the open course is not
\* put in current_course_set.
courses_step_no_set_add(edges, st, id) ==
    LET no_parents_in_course ==
            \A parent_id \in {e[1] : e \in {x \in DOMAIN edges : x[2] = id}} :
                parent_id \notin st.current_course_set
    IN  IF no_parents_in_course
        THEN [st EXCEPT !.current_course = Append(@, id),
                        !.loop_ids_to_course = @ @@ (id :> st.course)]
        ELSE [st EXCEPT !.course_to_loop_ids = (st.course :> st.current_course) @@ @,
                        !.current_course = <<id>>,
                        !.current_course_set = {id},
                        !.course = @ + 1,
                        !.loop_ids_to_course = @ @@ (id :> (st.course + 1))]

\* courses_step without line 112: a course change does not count the course up.
courses_step_no_increment(edges, st, id) ==
    LET no_parents_in_course ==
            \A parent_id \in {e[1] : e \in {x \in DOMAIN edges : x[2] = id}} :
                parent_id \notin st.current_course_set
    IN  IF no_parents_in_course
        THEN [st EXCEPT !.current_course_set = @ \cup {id},
                        !.current_course = Append(@, id),
                        !.loop_ids_to_course = @ @@ (id :> st.course)]
        ELSE [st EXCEPT !.course_to_loop_ids = (st.course :> st.current_course) @@ @,
                        !.current_course = <<id>>,
                        !.current_course_set = {id},
                        !.loop_ids_to_course = @ @@ (id :> st.course)]

\* courses_step without the reset of line 111: current_course_set keeps the
\* loops of the courses closed before.
courses_step_set_not_reset(edges, st, id) ==
    LET no_parents_in_course ==
            \A parent_id \in {e[1] : e \in {x \in DOMAIN edges : x[2] = id}} :
                parent_id \notin st.current_course_set
    IN  IF no_parents_in_course
        THEN [st EXCEPT !.current_course_set = @ \cup {id},
                        !.current_course = Append(@, id),
                        !.loop_ids_to_course = @ @@ (id :> st.course)]
        ELSE [st EXCEPT !.course_to_loop_ids = (st.course :> st.current_course) @@ @,
                        !.current_course = <<id>>,
                        !.current_course_set = @ \cup {id},
                        !.course = @ + 1,
                        !.loop_ids_to_course = @ @@ (id :> (st.course + 1))]

\* courses_step with line 107 putting the loop at the front of the open
\* course, not at its end.
courses_step_prepend(edges, st, id) ==
    LET no_parents_in_course ==
            \A parent_id \in {e[1] : e \in {x \in DOMAIN edges : x[2] = id}} :
                parent_id \notin st.current_course_set
    IN  IF no_parents_in_course
        THEN [st EXCEPT !.current_course_set = @ \cup {id},
                        !.current_course = <<id>> \o @,
                        !.loop_ids_to_course = @ @@ (id :> st.course)]
        ELSE [st EXCEPT !.course_to_loop_ids = (st.course :> st.current_course) @@ @,
                        !.current_course = <<id>>,
                        !.current_course_set = {id},
                        !.course = @ + 1,
                        !.loop_ids_to_course = @ @@ (id :> (st.course + 1))]

\* courses_step with lines 110 and 112 in the other order: the course is
\* counted up before the closed course is recorded.
courses_step_late_record(edges, st, id) ==
    LET no_parents_in_course ==
            \A parent_id \in {e[1] : e \in {x \in DOMAIN edges : x[2] = id}} :
                parent_id \notin st.current_course_set
    IN  IF no_parents_in_course
        THEN [st EXCEPT !.current_course_set = @ \cup {id},
                        !.current_course = Append(@, id),
                        !.loop_ids_to_course = @ @@ (id :> st.course)]
        ELSE [st EXCEPT !.course_to_loop_ids = ((st.course + 1) :> st.current_course) @@ @,
                        !.current_course = <<id>>,
                        !.current_course_set = {id},
                        !.course = @ + 1,
                        !.loop_ids_to_course = @ @@ (id :> (st.course + 1))]

\* courses_step that opens a new course only when every predecessor of the
\* loop is in the open course, not when any is.
courses_step_all_parents(edges, st, id) ==
    LET parents == {e[1] : e \in {x \in DOMAIN edges : x[2] = id}}
        no_parents_in_course ==
            \/ parents = {}
            \/ \E parent_id \in parents : parent_id \notin st.current_course_set
    IN  IF no_parents_in_course
        THEN [st EXCEPT !.current_course_set = @ \cup {id},
                        !.current_course = Append(@, id),
                        !.loop_ids_to_course = @ @@ (id :> st.course)]
        ELSE [st EXCEPT !.course_to_loop_ids = (st.course :> st.current_course) @@ @,
                        !.current_course = <<id>>,
                        !.current_course_set = {id},
                        !.course = @ + 1,
                        !.loop_ids_to_course = @ @@ (id :> (st.course + 1))]

\* One iteration of the loop of get_courses, for the node loop_id; st holds
\* the local variables of get_courses.
courses_step(edges, st, id) ==
    LET no_parents_in_course ==
            \A parent_id \in predecessors(edges, id) : parent_id \notin st.current_course_set
    IN  IF no_parents_in_course
        THEN [st EXCEPT !.current_course_set = @ \cup {id},
                        !.current_course = Append(@, id),
                        !.loop_ids_to_course = @ @@ (id :> st.course)]
        ELSE [st EXCEPT !.course_to_loop_ids = (st.course :> st.current_course) @@ @,
                        !.current_course = <<id>>,
                        !.current_course_set = {id},
                        !.course = @ + 1,
                        !.loop_ids_to_course = @ @@ (id :> (st.course + 1))]

\* The loop of get_courses over the nodes from the i-th on.
RECURSIVE courses_loop(_, _, _, _)
courses_loop(nodes, edges, st, i) ==
    IF i > Len(nodes) THEN st
    ELSE courses_loop(nodes, edges, courses_step(edges, st, nodes[i][1]), i + 1)

\* get_courses without line 114: the course open at the end is not recorded.
get_courses_unrecorded(nodes, edges) ==
    LET st == courses_loop(nodes, edges,
                           [loop_ids_to_course |-> << >>, course_to_loop_ids |-> << >>,
                            current_course_set |-> {}, current_course |-> << >>,
                            course |-> 0], 1)
    IN  <<st.loop_ids_to_course, st.course_to_loop_ids>>

\* Knit_Graph.get_courses: <<loop_ids_to_course, course_to_loop_ids>>
get_courses(nodes, edges) ==
    LET st0 == [loop_ids_to_course |-> << >>,
                course_to_loop_ids |-> << >>,
                current_course_set |-> {},
                current_course |-> << >>,
                course |-> 0]
        st == courses_loop(nodes, edges, st0, 1)
    IN  <<st.loop_ids_to_course,
          (st.course :> st.current_course) @@ st.course_to_loop_ids>>

\* ------------------------------------------------------------------ actions
\* Knit_Graph.__init__
Init ==
    /\ graph_nodes = << >>
    /\ graph_edges = << >>
    /\ loops = << >>
    /\ yarns = << >>
    /\ parent_loops = [o \in AllLoopObjs |-> << >>]
    /\ yarn_loops = [y \in AllYarnObjs |-> << >>]
    /\ last = [op |-> "__init__", outcome |-> "ok"]

\* Knit_Graph.add_yarn
add_yarn(y) ==
    /\ yarns' = DictSet(yarns, yarn_yarn_id(y), y)
    /\ last' = [op |-> "add_yarn", outcome |-> "ok"]
    /\ UNCHANGED <<graph_nodes, graph_edges, loops, parent_loops, yarn_loops>>

\* add_loop without lines 56-57: the loop is recorded in loops and not put on
\* its yarn.
add_loop_not_on_yarn(o) ==
    /\ graph_nodes' = DictSet(graph_nodes, loop_id(o), o)
    /\ IF yarn_id(o) \notin Keys(yarns)
       THEN /\ last' = [op |-> "add_loop", outcome |-> "AssertionError"]
            /\ UNCHANGED loops
       ELSE /\ loops' = DictSet(loops, loop_id(o), o)
            /\ last' = [op |-> "add_loop", outcome |-> "ok"]
    /\ UNCHANGED <<graph_edges, yarns, parent_loops, yarn_loops>>

\* add_loop without the test of line 56: the loop is put at the end of its
\* yarn whether it is on the yarn or not.
add_loop_always_appends(o) ==
    /\ graph_nodes' = DictSet(graph_nodes, loop_id(o), o)
    /\ IF yarn_id(o) \notin Keys(yarns)
       THEN /\ last' = [op |-> "add_loop", outcome |-> "AssertionError"]
            /\ UNCHANGED <<loops, yarn_loops>>
       ELSE /\ yarn_loops' = [yarn_loops EXCEPT ![Lookup(yarns, yarn_id(o))] =
                                 add_loop_to_end(@, o)]
            /\ loops' = DictSet(loops, loop_id(o), o)
            /\ last' = [op |-> "add_loop", outcome |-> "ok"]
    /\ UNCHANGED <<graph_edges, yarns, parent_loops>>

\* Knit_Graph.add_loop: the node is added before the yarn is looked up.
add_loop(o) ==
    /\ graph_nodes' = DictSet(graph_nodes, loop_id(o), o)
    /\ IF yarn_id(o) \notin Keys(yarns)
       THEN /\ last' = [op |-> "add_loop", outcome |-> "AssertionError"]
            /\ UNCHANGED <<loops, yarn_loops>>
       ELSE LET y == Lookup(yarns, yarn_id(o))
            IN  /\ yarn_loops' = IF on_yarn(y, o) THEN yarn_loops
                                 ELSE [yarn_loops EXCEPT ![y] = add_loop_to_end(@, o)]
                /\ loops' = DictSet(loops, loop_id(o), o)
                /\ last' = [op |-> "add_loop", outcome |-> "ok"]
    /\ UNCHANGED <<graph_edges, yarns, parent_loops>>

\* self.graph.add_edge(u, v, **attrs): a new edge, or an edge's attributes updated
add_edge(edges, u, v, attrs) ==
    [e \in DOMAIN edges \cup {<<u, v>>} |-> IF e = <<u, v>> THEN attrs ELSE edges[e]]

\* connect_loops without the assertion on the child: add_edge makes the child a
\* node that has no "loop" attribute, and the lookup of the child fails.
connect_loops_unchecked_child(parent_loop_id, child_loop_id, pull_direction, stack_position, depth, parent_offset) ==
    IF ~contains(parent_loop_id)
    THEN /\ last' = [op |-> "connect_loops", outcome |-> "AssertionError"]
         /\ UNCHANGED <<graph_nodes, graph_edges, loops, yarns, parent_loops, yarn_loops>>
    ELSE IF ~contains(child_loop_id)
    THEN /\ graph_edges' = add_edge(graph_edges, parent_loop_id, child_loop_id,
                                    [pull_direction |-> pull_direction, depth |-> depth,
                                     parent_offset |-> parent_offset])
         /\ last' = [op |-> "connect_loops", outcome |-> "KeyError"]
         /\ UNCHANGED <<graph_nodes, loops, yarns, parent_loops, yarn_loops>>
    ELSE /\ graph_edges' = add_edge(graph_edges, parent_loop_id, child_loop_id,
                                    [pull_direction |-> pull_direction, depth |-> depth,
                                     parent_offset |-> parent_offset])
         /\ parent_loops' = [parent_loops EXCEPT ![getitem(child_loop_id)] =
                                add_parent_loop(@, getitem(parent_loop_id), stack_position)]
         /\ last' = [op |-> "connect_loops", outcome |-> "ok"]
         /\ UNCHANGED <<graph_nodes, loops, yarns, yarn_loops>>

\* connect_loops that hands add_edge the pull direction alone: the edge gets
\* the default depth and parent_offset.
connect_loops_default_depth(parent_loop_id, child_loop_id, pull_direction, stack_position, depth, parent_offset) ==
    IF ~contains(parent_loop_id) \/ ~contains(child_loop_id)
    THEN /\ last' = [op |-> "connect_loops", outcome |-> "AssertionError"]
         /\ UNCHANGED <<graph_nodes, graph_edges, loops, yarns, parent_loops, yarn_loops>>
    ELSE /\ graph_edges' = add_edge(graph_edges, parent_loop_id, child_loop_id,
                                    [pull_direction |-> pull_direction, depth |-> 0,
                                     parent_offset |-> 0])
         /\ parent_loops' = [parent_loops EXCEPT ![getitem(child_loop_id)] =
                                add_parent_loop(@, getitem(parent_loop_id), stack_position)]
         /\ last' = [op |-> "connect_loops", outcome |-> "ok"]
         /\ UNCHANGED <<graph_nodes, loops, yarns, yarn_loops>>

\* connect_loops that leaves an edge that exists as it is: the attributes of
\* the first call stay.
connect_loops_keep_first_attributes(parent_loop_id, child_loop_id, pull_direction, stack_position, depth, parent_offset) ==
    IF ~contains(parent_loop_id) \/ ~contains(child_loop_id)
    THEN /\ last' = [op |-> "connect_loops", outcome |-> "AssertionError"]
         /\ UNCHANGED <<graph_nodes, graph_edges, loops, yarns, parent_loops, yarn_loops>>
    ELSE /\ graph_edges' = IF <<parent_loop_id, child_loop_id>> \in DOMAIN graph_edges
                           THEN graph_edges
                           ELSE add_edge(graph_edges, parent_loop_id, child_loop_id,
                                         [pull_direction |-> pull_direction, depth |-> depth,
                                          parent_offset |-> parent_offset])
         /\ parent_loops' = [parent_loops EXCEPT ![getitem(child_loop_id)] =
                                add_parent_loop(@, getitem(parent_loop_id), stack_position)]
         /\ last' = [op |-> "connect_loops", outcome |-> "ok"]
         /\ UNCHANGED <<graph_nodes, loops, yarns, yarn_loops>>

\* Knit_Graph.connect_loops: both assertions, then the edge, then the parent
\* pushed on the stack of the Loop the child's node holds.
connect_loops(parent_loop_id, child_loop_id, pull_direction, stack_position, depth, parent_offset) ==
    IF ~contains(parent_loop_id) \/ ~contains(child_loop_id)
    THEN /\ last' = [op |-> "connect_loops", outcome |-> "AssertionError"]
         /\ UNCHANGED <<graph_nodes, graph_edges, loops, yarns, parent_loops, yarn_loops>>
    ELSE /\ graph_edges' = add_edge(graph_edges, parent_loop_id, child_loop_id,
                                    [pull_direction |-> pull_direction, depth |-> depth,
                                     parent_offset |-> parent_offset])
         /\ parent_loops' = [parent_loops EXCEPT ![getitem(child_loop_id)] =
                                add_parent_loop(@, getitem(parent_loop_id), stack_position)]
         /\ last' = [op |-> "connect_loops", outcome |-> "ok"]
         /\ UNCHANGED <<graph_nodes, loops, yarns, yarn_loops>>

\* A get_courses that takes each edge it has looked at out of the graph.
call_get_courses_consuming ==
    /\ last' = [op |-> "get_courses", outcome |-> "ok",
                ret |-> get_courses(graph_nodes, graph_edges)]
    /\ graph_edges' = << >>
    /\ UNCHANGED <<graph_nodes, loops, yarns, parent_loops, yarn_loops>>

\* A call of Knit_Graph.get_courses: the graph is read, the result returned.
call_get_courses ==
    /\ last' = [op |-> "get_courses", outcome |-> "ok",
                ret |-> get_courses(graph_nodes, graph_edges)]
    /\ UNCHANGED <<graph_nodes, graph_edges, loops, yarns, parent_loops, yarn_loops>>

\* stack_position: Optional[int]; << >> is None and <<i>> is the position i.
\* The positions drawn for a child are those within its parent stack.
StackPositions(child_loop_id) ==
    {<< >>} \cup
    (IF contains(child_loop_id)
     THEN {<<i>> : i \in 0 .. Len(parent_loops[getitem(child_loop_id)])}
     ELSE {<<0>>})

\* Any call of the four operations, on one yarn, with two triples of edge attributes.
Next ==
    \/ \E y \in YarnObjs : add_yarn(y)
    \/ \E o \in LoopObjs : add_loop(o)
    \/ /\ TotalParents < MaxParents
       /\ \E p \in LoopIds, c \in LoopIds, a \in EdgeAttrs :
             \E sp \in StackPositions(c) :
                connect_loops(p, c, a.pull_direction, sp, a.depth, a.parent_offset)
    \/ call_get_courses

Spec == Init /\ [][Next]_vars

\* The construction contract followed (the yarn first, then its loops, each
\* once), edges with the default attributes: every order of the loops and
\* every set of edges over them.
NextCourses ==
    \/ \E y \in YarnObjs : add_yarn(y)
    \/ /\ yarns # << >>
       /\ \E o \in CourseLoopObjs : add_loop(o)
    \/ /\ TotalParents < MaxCourseParents
       /\ \E p \in CourseLoopIds, c \in CourseLoopIds :
             connect_loops(p, c, DefaultAttrs.pull_direction, << >>,
                           DefaultAttrs.depth, DefaultAttrs.parent_offset)
    \/ call_get_courses

SpecCourses == Init /\ [][NextCourses]_vars

\* As Next, the yarn registered before any loop is added: no add_loop fails.
NextContract ==
    \/ \E y \in YarnObjs : add_yarn(y)
    \/ /\ yarns # << >>
       /\ \E o \in LoopObjs : add_loop(o)
    \/ /\ TotalParents < MaxParents
       /\ \E p \in LoopIds, c \in LoopIds, a \in EdgeAttrs :
             \E sp \in StackPositions(c) :
                connect_loops(p, c, a.pull_direction, sp, a.depth, a.parent_offset)
    \/ call_get_courses

SpecContract == Init /\ [][NextContract]_vars

\* ------------------------------------------------------- lookups and yarns
\* The error of the assertions of add_loop and connect_loops.
PreconditionError == "AssertionError"

\* A lookup that asserts the item is in the graph, as connect_loops does.
call_getitem_asserting(item) ==
    /\ last' = IF contains(item)
               THEN [op |-> "__getitem__", outcome |-> "ok", ret |-> getitem(item)]
               ELSE [op |-> "__getitem__", outcome |-> "AssertionError"]
    /\ UNCHANGED <<graph_nodes, graph_edges, loops, yarns, parent_loops, yarn_loops>>

\* A call of Knit_Graph.__getitem__: AttributeError is raised for an item that
\* is not in the graph, else the node's loop is returned.
call_getitem(item) ==
    /\ last' = IF ~contains(item)
               THEN [op |-> "__getitem__", outcome |-> "AttributeError"]
               ELSE [op |-> "__getitem__", outcome |-> "ok", ret |-> getitem(item)]
    /\ UNCHANGED <<graph_nodes, graph_edges, loops, yarns, parent_loops, yarn_loops>>

\* Knit_Graph.get_carriers: [yarn.carrier for yarn in self.yarns.values()]
get_carriers(ys) == [i \in DOMAIN ys |-> carrier(ys[i][2])]

\* A get_carriers that lists the carriers from the yarn registered last to
\* the one registered first.
call_get_carriers_reversed ==
    /\ last' = [op |-> "get_carriers", outcome |-> "ok",
                ret |-> [i \in DOMAIN yarns |-> carrier(yarns[Len(yarns) + 1 - i][2])]]
    /\ UNCHANGED <<graph_nodes, graph_edges, loops, yarns, parent_loops, yarn_loops>>

\* A call of Knit_Graph.get_carriers
call_get_carriers ==
    /\ last' = [op |-> "get_carriers", outcome |-> "ok", ret |-> get_carriers(yarns)]
    /\ UNCHANGED <<graph_nodes, graph_edges, loops, yarns, parent_loops, yarn_loops>>

\* Yarns registered, replaced and added to in any order, loops added to them
\* (a loop of yarn "B" also while "B" is not registered), and the two queries.
NextYarns ==
    \/ \E y \in AllYarnObjs : add_yarn(y)
    \/ \E o \in YarnLoopObjs : add_loop(o)
    \/ \E item \in LoopIds : call_getitem(item)
    \/ call_get_carriers

SpecYarns == Init /\ [][NextYarns]_vars

\* ------------------------------------------------- the deprecated algorithm
\* The test (parent_loop_id in loop2course) and
\* loop2course[parent_loop_id] == course_id of line 137, for a Loop of a parent
\* stack and the dictionary loop2course, whose keys are loop ids. by_id tells
\* whether a Loop is equal to, and hashes as, its loop id: with it the Loop
\* finds the entry of its id, without it a Loop is never a key of loop2course.
parent_in_course(parent, loop2course, course_id, by_id) ==
    /\ by_id
    /\ loop_id(parent) \in DOMAIN loop2course
    /\ loop2course[loop_id(parent)] = course_id

\* Lines 135-138: the parent stack gone through from the i-th entry on;
\* course_id is counted up at each parent found in the course course_id.
RECURSIVE deprecated_parents(_, _, _, _, _)
deprecated_parents(stack, loop2course, course_id, by_id, i) ==
    IF i > Len(stack) THEN course_id
    ELSE deprecated_parents(stack, loop2course,
                            IF parent_in_course(stack[i], loop2course, course_id, by_id)
                            THEN course_id + 1 ELSE course_id,
                            by_id, i + 1)

\* Lines 133-140: the loop over self.loops.items() from the i-th item on; st
\* holds loop2course and course_id.
RECURSIVE deprecated_loop(_, _, _, _, _)
deprecated_loop(ls, stacks, st, by_id, i) ==
    IF i > Len(ls) THEN st
    ELSE LET course_id == deprecated_parents(stacks[ls[i][2]], st.loop2course,
                                             st.course_id, by_id, 1)
         IN  deprecated_loop(ls, stacks,
                             [loop2course |-> (ls[i][1] :> course_id) @@ st.loop2course,
                              course_id |-> course_id],
                             by_id, i + 1)

\* Lines 142-144: loop2course inverted; the loops of a course come in the
\* order of loop2course, which is the order of ls.
course2loop_inverted(ls, loop2course) ==
    [v \in {loop2course[k] : k \in DOMAIN loop2course} |->
        LET in_course(k) == loop2course[k] = v
        IN  SelectSeq(KeySeq(ls), in_course)]

\* list.sort() of a list of loop ids, no id twice.
RECURSIVE sort(_)
sort(ids) ==
    IF ids = << >> THEN << >>
    ELSE LET m == CHOOSE i \in DOMAIN ids : \A j \in DOMAIN ids : ids[i] <= ids[j]
             rest == [j \in 1 .. (Len(ids) - 1) |-> IF j < m THEN ids[j] ELSE ids[j + 1]]
         IN  <<ids[m]>> \o sort(rest)

\* deprecated_get_courses without lines 146-147: the course lists are not sorted.
deprecated_get_courses_unsorted(ls, stacks, by_id) ==
    LET st == deprecated_loop(ls, stacks, [loop2course |-> << >>, course_id |-> 0], by_id, 1)
    IN  <<st.loop2course, course2loop_inverted(ls, st.loop2course)>>

\* Knit_Graph.deprecated_get_courses: <<loop2course, course2loop>>
deprecated_get_courses(ls, stacks, by_id) ==
    LET st == deprecated_loop(ls, stacks, [loop2course |-> << >>, course_id |-> 0], by_id, 1)
        course2loop == course2loop_inverted(ls, st.loop2course)
    IN  <<st.loop2course, [course \in DOMAIN course2loop |-> sort(course2loop[course])]>>

\* A call of Knit_Graph.deprecated_get_courses
call_deprecated_get_courses(by_id) ==
    /\ last' = [op |-> "deprecated_get_courses", outcome |-> "ok",
                ret |-> deprecated_get_courses(loops, parent_loops, by_id)]
    /\ UNCHANGED <<graph_nodes, graph_edges, loops, yarns, parent_loops, yarn_loops>>

\* As NextCourses, with calls of the deprecated algorithm.
NextDeprecated ==
    \/ NextCourses
    \/ \E by_id \in BOOLEAN : call_deprecated_get_courses(by_id)

SpecDeprecated == Init /\ [][NextDeprecated]_vars

\* ------------------------------------------------------------------- claims
\* The graph as the caller can observe it through the Knit_Graph attributes.
graph_state == <<graph_nodes, graph_edges, loops, yarns, parent_loops, yarn_loops>>

\* C1 (as claimed): a call of add_loop that fails leaves the loops map, the
\* yarns map and the node set of the graph as they were, and with them the
\* result of get_courses.
C1_FailedAddLoopLeavesGraph ==
    [][(last'.op = "add_loop" /\ last'.outcome = "AssertionError")
        => /\ loops' = loops
           /\ yarns' = yarns
           /\ Keys(graph_nodes') = Keys(graph_nodes)
           /\ get_courses(graph_nodes', graph_edges') = get_courses(graph_nodes, graph_edges)]_vars

\* C2: a call of connect_loops whose parent or child is not a node of the
\* graph fails with the assertion's error, and leaves every edge and every
\* parent stack as it was.
C2_ConnectMissingLoopFails ==
    [][\A p \in LoopIds, c \in LoopIds, a \in EdgeAttrs : \A sp \in StackPositions(c) :
          (/\ connect_loops(p, c, a.pull_direction, sp, a.depth, a.parent_offset)
           /\ (~contains(p) \/ ~contains(c)))
          => /\ last'.outcome = "AssertionError"
             /\ graph_edges' = graph_edges
             /\ parent_loops' = parent_loops]_vars

\* C2's case: connect_loops has just failed on a graph that has an edge and
\* in which one of the two loop ids is a node and the other is not.
C2_Witness ==
    /\ last.op = "connect_loops"
    /\ last.outcome = "AssertionError"
    /\ DOMAIN graph_edges # {}
    /\ Cardinality(Keys(graph_nodes)) = 1

\* C3 (as claimed): for all nodes p and c, the edge p -> c exists iff the Loop
\* that the lookup of c returns has a Loop with the id p in its parent stack.
C3_EdgesMatchParentStacks ==
    \A p \in Keys(graph_nodes), c \in Keys(graph_nodes) :
        (<<p, c>> \in DOMAIN graph_edges)
            <=> (\E i \in DOMAIN parent_loops[getitem(c)] :
                    loop_id(parent_loops[getitem(c)][i]) = p)

\* The place of a node in the insertion order of the graph.
node_index(id) == CHOOSE i \in DOMAIN graph_nodes : graph_nodes[i][1] = id

\* C4 (as claimed): in the result of get_courses no loop is in the course of
\* any of its direct predecessors.
C4_NoPredecessorInSameCourse ==
    last.op = "get_courses" =>
        \A c \in Keys(graph_nodes) : \A p \in predecessors(graph_edges, c) :
            last.ret[1][p] # last.ret[1][c]

\* C4 (amended): in the result of get_courses no loop is in the course of a
\* direct predecessor that was added to the graph before it.
C4_NoEarlierPredecessorInSameCourse ==
    last.op = "get_courses" =>
        \A c \in Keys(graph_nodes) : \A p \in predecessors(graph_edges, c) :
            node_index(p) < node_index(c) => last.ret[1][p] # last.ret[1][c]

\* C4's case: get_courses has returned for a graph with an edge from an
\* earlier loop to a later one, and an edge from a later loop to an earlier one.
C4_Witness ==
    /\ last.op = "get_courses"
    /\ \E e \in DOMAIN graph_edges : node_index(e[1]) < node_index(e[2])
    /\ \E e \in DOMAIN graph_edges : node_index(e[1]) > node_index(e[2])

\* C5: a call of connect_loops(p, c, ...) on two nodes succeeds; afterwards
\* the edge p -> c carries the attributes of the call, the Loop of p is in the
\* parent stack of the Loop of c, at the position given or else on top, and
\* every other edge and every other Loop's stack is as it was.
C5_ConnectLoopsEffect ==
    [][\A p \in LoopIds, c \in LoopIds, a \in EdgeAttrs : \A sp \in StackPositions(c) :
          (/\ connect_loops(p, c, a.pull_direction, sp, a.depth, a.parent_offset)
           /\ contains(p) /\ contains(c))
          => /\ last'.outcome = "ok"
             /\ DOMAIN graph_edges' = DOMAIN graph_edges \cup {<<p, c>>}
             /\ graph_edges'[<<p, c>>] = a
             /\ \A e \in DOMAIN graph_edges \ {<<p, c>>} : graph_edges'[e] = graph_edges[e]
             /\ Len(parent_loops'[getitem(c)]) = Len(parent_loops[getitem(c)]) + 1
             /\ parent_loops'[getitem(c)][IF sp = << >>
                                          THEN Len(parent_loops'[getitem(c)])
                                          ELSE sp[1] + 1] = getitem(p)
             /\ \A o \in AllLoopObjs \ {getitem(c)} : parent_loops'[o] = parent_loops[o]]_vars

\* C5's case: connect_loops has just succeeded, a Loop has two different
\* parents on its stack, the one with the higher id below the other, and an
\* edge carries attributes that are not the defaults.
C5_Witness ==
    /\ last.op = "connect_loops"
    /\ last.outcome = "ok"
    /\ \E o \in LoopObjs :
          /\ Len(parent_loops[o]) = 2
          /\ loop_id(parent_loops[o][1]) > loop_id(parent_loops[o][2])
    /\ \E e \in DOMAIN graph_edges : graph_edges[e] # DefaultAttrs

\* C6 (as claimed): the nodes of the graph are the keys of loops, and the
\* lookup of a node returns what loops holds under it.
C6_NodesAreLoopsKeys ==
    /\ Keys(graph_nodes) = Keys(loops)
    /\ \A id \in Keys(graph_nodes) : getitem(id) = Lookup(loops, id)

\* The graph is a chain: each node but the first has the node added just
\* before it as its only parent, and there is no other edge.
IsChain ==
    /\ Len(graph_nodes) >= 1
    /\ DOMAIN graph_edges =
          {<<graph_nodes[i][1], graph_nodes[i + 1][1]>> : i \in 1 .. (Len(graph_nodes) - 1)}

\* C7: for a chain of n+1 loops get_courses returns the courses 0..n, the
\* i-th loop added being alone in course i.
C7_ChainCourses ==
    (last.op = "get_courses" /\ IsChain) =>
        /\ last.ret[1] = [id \in Keys(graph_nodes) |-> node_index(id) - 1]
        /\ last.ret[2] = [k \in 0 .. (Len(graph_nodes) - 1) |-> <<graph_nodes[k + 1][1]>>]

\* C7's case: get_courses has returned for a chain of three loops.
C7_Witness ==
    /\ last.op = "get_courses"
    /\ IsChain
    /\ Len(graph_nodes) = 3

\* C8: for a graph without edges get_courses returns the one course 0, which
\* lists the loop ids in the order they were added, and maps every loop id to 0.
C8_NoEdgesOneCourse ==
    (last.op = "get_courses" /\ DOMAIN graph_edges = {}) =>
        /\ last.ret[1] = [id \in Keys(graph_nodes) |-> 0]
        /\ last.ret[2] = (0 :> KeySeq(graph_nodes))

\* C8's case: get_courses has returned for three loops without edges that
\* were not added in the order of their ids.
C8_Witness ==
    /\ last.op = "get_courses"
    /\ DOMAIN graph_edges = {}
    /\ Len(graph_nodes) = 3
    /\ graph_nodes[1][1] > graph_nodes[2][1]

\* C9: a call of get_courses changes nothing of the graph, and when it follows
\* another call of get_courses it returns what that call returned.
C9_GetCoursesIsPure ==
    [][last'.op = "get_courses"
        => /\ graph_state' = graph_state
           /\ last.op = "get_courses" => last'.ret = last.ret]_vars

\* C9's case: get_courses has returned for a graph that has loops on a yarn,
\* an edge and a parent stack to preserve.
C9_Witness ==
    /\ last.op = "get_courses"
    /\ DOMAIN graph_edges # {}
    /\ Len(loops) = 2
    /\ Cardinality(DOMAIN last.ret[1]) = 2

\* C10: no call takes a node out of the graph or a key out of loops, every key
\* of loops is a node, a loop is a node as soon as add_loop has succeeded for
\* it, and no loop id is a key of loops twice.
C10_LoopsAreNeverRemoved ==
    [][/\ Keys(graph_nodes) \subseteq Keys(graph_nodes')
       /\ Keys(loops) \subseteq Keys(loops')
       /\ Keys(loops') \subseteq Keys(graph_nodes')
       /\ \A o \in LoopObjs :
             (add_loop(o) /\ last'.outcome = "ok") => loop_id(o) \in Keys(graph_nodes')
       /\ Cardinality(Keys(loops')) = Len(loops')]_vars

\* C10's case: add_loop has just succeeded for a second Loop with the id 0,
\* and both loop ids are still nodes and keys of loops.
C10_Witness ==
    /\ last.op = "add_loop"
    /\ last.outcome = "ok"
    /\ Keys(loops) = {0, 1}
    /\ Keys(graph_nodes) = {0, 1}
    /\ Lookup(loops, 0) = <<0, "A", 2>>
    /\ \E i \in DOMAIN yarn_loops[<<"A", 1>>] : yarn_loops[<<"A", 1>>][i] = <<0, "A", 1>>

\* C11: a lookup changes nothing of the graph; for a node it returns the Loop
\* that the node holds, a Loop with the id looked up; for an id that is not a
\* node it fails with an error that is not the error of the assertions.
C11_LookupReturnsOrNotFound ==
    [][\A item \in LoopIds :
          call_getitem(item)
          => /\ graph_state' = graph_state
             /\ contains(item) => /\ last'.outcome = "ok"
                                  /\ last'.ret = Lookup(graph_nodes, item)
                                  /\ loop_id(last'.ret) = item
             /\ ~contains(item) => /\ last'.outcome # "ok"
                                   /\ last'.outcome # PreconditionError]_vars

\* C11's case: a lookup has just failed with AttributeError on a graph that
\* has a node and a loop on a yarn.
C11_Witness ==
    /\ last.op = "__getitem__"
    /\ last.outcome = "AttributeError"
    /\ Len(graph_nodes) = 1
    /\ Len(loops) = 1

\* A sequence in which nothing occurs twice.
NoRepeats(seq) == \A i \in DOMAIN seq, j \in DOMAIN seq : i # j => seq[i] # seq[j]

\* C12: after every call no Yarn has a loop twice on its sequence, no call
\* takes a loop off a sequence or reorders one, and add_loop for a loop that is
\* on its yarn leaves every sequence as it is.
C12_LoopOnceOnYarn ==
    [][/\ \A y \in AllYarnObjs :
             /\ NoRepeats(yarn_loops'[y])
             /\ Len(yarn_loops[y]) <= Len(yarn_loops'[y])
             /\ SubSeq(yarn_loops'[y], 1, Len(yarn_loops[y])) = yarn_loops[y]
       /\ \A o \in YarnLoopObjs :
             (/\ add_loop(o)
              /\ yarn_id(o) \in Keys(yarns)
              /\ on_yarn(Lookup(yarns, yarn_id(o)), o))
             => yarn_loops' = yarn_loops]_vars

\* C12's case: add_loop has just succeeded, the yarn registered under "A"
\* has two loops, and one of them is also on the Yarn registered before it:
\* add_loop has succeeded more than twice for two loops.
C12_Witness ==
    /\ last.op = "add_loop"
    /\ last.outcome = "ok"
    /\ "A" \in Keys(yarns)
    /\ Len(yarn_loops[Lookup(yarns, "A")]) = 2
    /\ \E y \in AllYarnObjs : y # Lookup(yarns, "A") /\ yarn_yarn_id(y) = "A" /\ yarn_loops[y] # << >>

\* The Yarn objects registered in the graph.
registered_yarns == {yarns[i][2] : i \in DOMAIN yarns}

\* C13 (as claimed): get_carriers lists one carrier per registered yarn in
\* the order the yarns were registered: a Yarn that add_yarn has just
\* registered, and that was not registered at the call, is the last of them,
\* so its carrier is the last one get_carriers returns.
C13_CarriersInRegistrationOrder ==
    [][\A y \in AllYarnObjs :
          (add_yarn(y) /\ y \notin registered_yarns)
          => /\ Len(get_carriers(yarns')) = Cardinality(registered_yarns')
             /\ get_carriers(yarns')[Len(yarns')] = carrier(y)]_vars

\* C13 (amended): get_carriers changes nothing and returns one carrier per
\* registered yarn id, the carrier of the Yarn registered last under the id,
\* in the order in which the ids were first registered: add_yarn puts a new
\* id last and leaves the place of an id that is registered already.
C13_CarriersInFirstRegistrationOrder ==
    [][/\ last'.op = "get_carriers"
          => /\ graph_state' = graph_state
             /\ Len(last'.ret) = Cardinality(Keys(yarns))
             /\ \A i \in DOMAIN yarns : last'.ret[i] = carrier(Lookup(yarns, KeySeq(yarns)[i]))
       /\ \A y \in AllYarnObjs :
             add_yarn(y)
             => /\ Lookup(yarns', yarn_yarn_id(y)) = y
                /\ KeySeq(yarns') = IF yarn_yarn_id(y) \in Keys(yarns)
                                     THEN KeySeq(yarns)
                                     ELSE Append(KeySeq(yarns), yarn_yarn_id(y))
                /\ \A k \in Keys(yarns) \ {yarn_yarn_id(y)} :
                      Lookup(yarns', k) = Lookup(yarns, k)]_vars

\* C13's case: get_carriers has returned for a graph in which the id "A" was
\* registered before "B" and holds the second Yarn made with that id, after a
\* loop was put on the first: the carriers are 2 and 3, in this order.
C13_Witness ==
    /\ last.op = "get_carriers"
    /\ yarns = << <<"A", <<"A", 2>>>>, <<"B", <<"B", 3>>>> >>
    /\ yarn_loops[<<"A", 1>>] # << >>
    /\ last.ret = <<2, 3>>

\* The loop added to the graph just before the loop id (id is not the first).
previous_loop(id) == graph_nodes[node_index(id) - 1][1]

\* C14 (as claimed): in the result of get_courses the first loop added has
\* course 0, and every later loop has the course of the loop added just
\* before it plus one if one of its direct predecessors is in the course of
\* that loop, and the course of that loop otherwise.
C14_CourseFromPreviousLoop ==
    last.op = "get_courses" =>
        \A id \in Keys(graph_nodes) :
            last.ret[1][id] =
                IF node_index(id) = 1 THEN 0
                ELSE IF \E p \in predecessors(graph_edges, id) :
                            last.ret[1][p] = last.ret[1][previous_loop(id)]
                     THEN last.ret[1][previous_loop(id)] + 1
                     ELSE last.ret[1][previous_loop(id)]

\* C14 (amended): as claimed, counting only the direct predecessors that were
\* added to the graph before the loop.
C14_CourseFromEarlierPredecessors ==
    last.op = "get_courses" =>
        \A id \in Keys(graph_nodes) :
            last.ret[1][id] =
                IF node_index(id) = 1 THEN 0
                ELSE IF \E p \in predecessors(graph_edges, id) :
                            /\ node_index(p) < node_index(id)
                            /\ last.ret[1][p] = last.ret[1][previous_loop(id)]
                     THEN last.ret[1][previous_loop(id)] + 1
                     ELSE last.ret[1][previous_loop(id)]

\* C14's case: get_courses has returned for three loops, the third with the
\* second as its only parent: the first two are course 0, the third course 1.
C14_Witness ==
    /\ last.op = "get_courses"
    /\ Len(graph_nodes) = 3
    /\ DOMAIN graph_edges = {<<graph_nodes[2][1], graph_nodes[3][1]>>}
    /\ last.ret[2] = (0 :> <<graph_nodes[1][1], graph_nodes[2][1]>>) @@ (1 :> <<graph_nodes[3][1]>>)

\* The course lists of the course indices ks, one after the other in
\* ascending order of the index.
RECURSIVE concatenated_courses(_, _)
concatenated_courses(course_to_loop_ids, ks) ==
    IF ks = {} THEN << >>
    ELSE LET k == CHOOSE x \in ks : \A z \in ks : x <= z
         IN  course_to_loop_ids[k] \o concatenated_courses(course_to_loop_ids, ks \ {k})

\* C15: the course lists returned by get_courses, one after the other in
\* ascending order of the course index, are the loop ids of the graph in the
\* order the loops were added, each once; a loop added earlier never has a
\* higher course index than a loop added later.
C15_CoursesConcatenateToInsertionOrder ==
    last.op = "get_courses" =>
        /\ concatenated_courses(last.ret[2], DOMAIN last.ret[2]) = KeySeq(graph_nodes)
        /\ \A a \in Keys(graph_nodes), b \in Keys(graph_nodes) :
              node_index(a) < node_index(b) => last.ret[1][a] <= last.ret[1][b]

\* C15's case: get_courses has returned two courses for three loops that
\* were not added in the order of their ids.
C15_Witness ==
    /\ last.op = "get_courses"
    /\ KeySeq(graph_nodes) = <<2, 0, 1>>
    /\ DOMAIN last.ret[2] = {0, 1}

\* The number of times the loop id l is in the course list.
occurrences(course, l) == Cardinality({i \in DOMAIN course : course[i] = l})

\* C16: the two mappings returned by get_courses are the same partition of
\* the loop ids: l maps to course k exactly if l is in the list of course k,
\* and then once; the course indices are 0..K; no course list is empty when
\* the graph has a loop.
C16_MappingsAreOnePartition ==
    last.op = "get_courses" =>
        /\ DOMAIN last.ret[1] = Keys(graph_nodes)
        /\ \A l \in Keys(graph_nodes) : last.ret[1][l] \in DOMAIN last.ret[2]
        /\ \A k \in DOMAIN last.ret[2] :
              /\ \A i \in DOMAIN last.ret[2][k] : last.ret[2][k][i] \in Keys(graph_nodes)
              /\ \A l \in Keys(graph_nodes) :
                    /\ (last.ret[1][l] = k) <=> (occurrences(last.ret[2][k], l) >= 1)
                    /\ occurrences(last.ret[2][k], l) <= 1
        /\ DOMAIN last.ret[2] = 0 .. (Cardinality(DOMAIN last.ret[2]) - 1)
        /\ graph_nodes # << >> => \A k \in DOMAIN last.ret[2] : last.ret[2][k] # << >>

\* C16's case: get_courses has returned for three loops, two of them in one
\* course and the third in the other.
C16_Witness ==
    /\ last.op = "get_courses"
    /\ Len(graph_nodes) = 3
    /\ Cardinality(DOMAIN last.ret[2]) = 2
    /\ \E k \in DOMAIN last.ret[2] : Len(last.ret[2][k]) = 2

\* C18: in the result of get_courses, for every edge p -> c with p added to
\* the graph before c, the course of p is strictly lower than the course of
\* c, also when the course of p was closed before c was visited.
C18_EarlierParentInLowerCourse ==
    last.op = "get_courses" =>
        \A e \in DOMAIN graph_edges :
            node_index(e[1]) < node_index(e[2]) => last.ret[1][e[1]] < last.ret[1][e[2]]

\* C18's case: get_courses has returned for a graph with an edge p -> c, p
\* added before c, where the loop added just before c is in a later course
\* than p: the course of p was not the open one when c was visited.
C18_Witness ==
    /\ last.op = "get_courses"
    /\ \E e \in DOMAIN graph_edges :
          /\ node_index(e[1]) < node_index(e[2])
          /\ last.ret[1][e[1]] < last.ret[1][previous_loop(e[2])]
          /\ last.ret[1][e[2]] = last.ret[1][previous_loop(e[2])]

\* The loop ids of the list are in ascending order.
ascending(ids) == \A i \in DOMAIN ids, j \in DOMAIN ids : i < j => ids[i] < ids[j]

\* C17: deprecated_get_courses does not return what get_courses returns on
\* every graph: on a graph for which get_courses returns a course whose loops
\* were not added in the order of their ids, the results of the two differ.
C17_DeprecatedDiffers ==
    (/\ last.op = "deprecated_get_courses"
     /\ \E k \in DOMAIN get_courses(graph_nodes, graph_edges)[2] :
           ~ascending(get_courses(graph_nodes, graph_edges)[2][k]))
    => last.ret # get_courses(graph_nodes, graph_edges)

\* C17's case: deprecated_get_courses has returned for the loops 1 and 0,
\* added in this order and not connected: one course, [0, 1], where
\* get_courses returns [1, 0]; the loop -> course mappings are the same.
C17_Witness ==
    /\ last.op = "deprecated_get_courses"
    /\ KeySeq(graph_nodes) = <<1, 0>>
    /\ graph_edges = << >>
    /\ last.ret[2] = (0 :> <<0, 1>>)
    /\ get_courses(graph_nodes, graph_edges)[2] = (0 :> <<1, 0>>)
    /\ last.ret[1] = get_courses(graph_nodes, graph_edges)[1]

\* The edges that point into the node id.
in_edges(edges, id) == {e \in DOMAIN edges : e[2] = id}

\* C19 (as claimed): connect_loops on two nodes, also on a pair that is
\* connected already, keeps the parent stack of the child as long as the
\* number of edges into the child, and an edge that exists keeps the
\* attributes of the first call.
C19_StackCountsEdgesFirstAttributesKept ==
    [][\A p \in LoopIds, c \in LoopIds, a \in EdgeAttrs : \A sp \in StackPositions(c) :
          (/\ connect_loops(p, c, a.pull_direction, sp, a.depth, a.parent_offset)
           /\ contains(p) /\ contains(c))
          => /\ Len(parent_loops[getitem(c)]) = Cardinality(in_edges(graph_edges, c))
                => Len(parent_loops'[getitem(c)]) = Cardinality(in_edges(graph_edges', c))
             /\ <<p, c>> \in DOMAIN graph_edges
                => graph_edges'[<<p, c>>] = graph_edges[<<p, c>>]]_vars

\* C19 (amended): every successful connect_loops(p, c, ...) puts one more
\* entry on the parent stack of c; the number of edges into c goes up by one
\* when p -> c is new and stays when the pair is connected already; the edge
\* p -> c carries the attributes of this call, the latest.
C19_StackCountsCallsLatestAttributes ==
    [][\A p \in LoopIds, c \in LoopIds, a \in EdgeAttrs : \A sp \in StackPositions(c) :
          (/\ connect_loops(p, c, a.pull_direction, sp, a.depth, a.parent_offset)
           /\ contains(p) /\ contains(c))
          => /\ Len(parent_loops'[getitem(c)]) = Len(parent_loops[getitem(c)]) + 1
             /\ Cardinality(in_edges(graph_edges', c)) =
                   IF <<p, c>> \in DOMAIN graph_edges
                   THEN Cardinality(in_edges(graph_edges, c))
                   ELSE Cardinality(in_edges(graph_edges, c)) + 1
             /\ graph_edges'[<<p, c>>] = [pull_direction |-> a.pull_direction,
                                          depth |-> a.depth,
                                          parent_offset |-> a.parent_offset]]_vars

\* C19's case: connect_loops has succeeded twice on the pair 0 -> 1 and on no
\* other: the stack of loop 1 holds loop 0 twice, one edge points into loop
\* 1, and its attributes are not the defaults.
C19_Witness ==
    /\ last.op = "connect_loops"
    /\ last.outcome = "ok"
    /\ DOMAIN graph_edges = {<<0, 1>>}
    /\ graph_edges[<<0, 1>>] # DefaultAttrs
    /\ contains(1)
    /\ Len(parent_loops[getitem(1)]) = 2
    /\ \A i \in DOMAIN parent_loops[getitem(1)] : loop_id(parent_loops[getitem(1)][i]) = 0

\* C20 (as claimed): every loop in loops is on the sequence of the Yarn that
\* is registered under the loop's yarn_id, also after add_yarn was called
\* again with an id that is registered.
C20_LoopsOnCurrentYarn ==
    \A i \in DOMAIN loops :
        /\ yarn_id(loops[i][2]) \in Keys(yarns)
        /\ on_yarn(Lookup(yarns, yarn_id(loops[i][2])), loops[i][2])

\* C20 (amended): every loop in loops is on the sequence of a Yarn made with
\* the loop's yarn_id, the one registered when the loop was added; the loops
\* stay on the Yarns currently registered over every step that replaces no
\* registered Yarn by another, which only add_yarn with a registered id does.
C20_LoopsOnYarnOfRegistration ==
    [][/\ \A i \in DOMAIN loops' :
             \E y \in AllYarnObjs :
                /\ yarn_yarn_id(y) = yarn_id(loops'[i][2])
                /\ \E j \in DOMAIN yarn_loops'[y] :
                      loop_id(yarn_loops'[y][j]) = loop_id(loops'[i][2])
       /\ (/\ C20_LoopsOnCurrentYarn
           /\ \A k \in Keys(yarns) : Lookup(yarns', k) = Lookup(yarns, k))
          => C20_LoopsOnCurrentYarn'
       /\ (\E y \in AllYarnObjs : add_yarn(y)) \/ (yarns' = yarns)]_vars

\* C20's case: add_yarn has just registered a second Yarn under the id "A"
\* after two loops were put on the first: the loops are on the sequence of
\* the first Yarn, and the sequence of the Yarn now registered is empty.
C20_Witness ==
    /\ last.op = "add_yarn"
    /\ "A" \in Keys(yarns)
    /\ Lookup(yarns, "A") = <<"A", 2>>
    /\ yarn_loops[<<"A", 2>>] = << >>
    /\ Len(yarn_loops[<<"A", 1>>]) = 2
    /\ Len(loops) = 2

====
